---- MODULE Spec2Model ----
(***************************************************************************)
(* The socket.io chat server of server/server.js as a state machine: the   *)
(* connection registry (users), the typing map (typingUsers), the          *)
(* transport's room subscriptions, the message collection, the handlers    *)
(* suspended at an await, and the events emitted by the last handler turn. *)
(*                                                                         *)
(* One action is one handler turn: the code from an inbound event (or from *)
(* the completion of an awaited store call) to the next await or the end.  *)
(* A store call takes effect in the turn that resumes its handler.         *)
(***************************************************************************)
EXTENDS Integers, Sequences, FiniteSets, Bags, TLC

(***************************************************************************)
(* Bounds of the exploration.                                              *)
(***************************************************************************)
\* longest connection id, in characters, given to the private room deriver
MaxIdLen == 2
\* messages ever constructed (new Message) in one behaviour
MaxMsgs == 2
\* handlers suspended at an await at the same time
MaxPending == 2
\* inbound events handled in one behaviour
MaxEvents == 3
\* messages a room holds beyond the history limit when a behaviour starts
MaxExtra == 1

(***************************************************************************)
(* Connection ids.  socket.io issues strings over [A-Za-z0-9_-]; a string  *)
(* is spelled here by a sequence of characters of a small alphabet so that *)
(* the conversions of the private room deriver can be computed.            *)
(***************************************************************************)
IdChars == {"0", "7", "k", "q", "-"}

IdSeqs == UNION {[1..n -> IdChars] : n \in 1..MaxIdLen}

RECURSIVE IdStr(_)
IdStr(s) == IF s = <<>> THEN "" ELSE Head(s) \o IdStr(Tail(s))

IdDomain == {IdStr(s) : s \in IdSeqs}

\* the sockets of the state machine
ConnIds == {"k", "q", "kq"}

(***************************************************************************)
(* Number(string), Math.min, Math.max and `${number}` of JavaScript, on    *)
(* the strings of IdDomain: an optional "-" followed by decimal digits is  *)
(* that integer, any other string is NaN.                                  *)
(***************************************************************************)
NaN == [isNaN |-> TRUE, val |-> 0]

Num(n) == [isNaN |-> FALSE, val |-> n]

IsDigit(ch) == ch \in {"0", "7"}

DigitVal(ch) == IF ch = "7" THEN 7 ELSE 0

RECURSIVE Decimal(_)
Decimal(s) == IF s = <<>> THEN 0
              ELSE 10 * Decimal(SubSeq(s, 1, Len(s) - 1)) + DigitVal(s[Len(s)])

ToNumber(str) ==
  LET s    == CHOOSE t \in IdSeqs : IdStr(t) = str
      neg  == s[1] = "-"
      body == IF neg THEN Tail(s) ELSE s
  IN  IF body = <<>> \/ \E i \in 1..Len(body) : ~IsDigit(body[i])
      THEN NaN
      ELSE Num(IF neg THEN 0 - Decimal(body) ELSE Decimal(body))

MathMin(a, b) ==
  LET x == ToNumber(a)
      y == ToNumber(b)
  IN  IF x.isNaN \/ y.isNaN THEN NaN ELSE IF x.val <= y.val THEN x ELSE y

MathMax(a, b) ==
  LET x == ToNumber(a)
      y == ToNumber(b)
  IN  IF x.isNaN \/ y.isNaN THEN NaN ELSE IF x.val >= y.val THEN x ELSE y

NumberToString(x) == IF x.isNaN THEN "NaN" ELSE ToString(x.val)

\* a deriver that concatenates the raw ids in call order
privateRoomIdUnordered(socketId, toUserId) ==
  "private-" \o socketId \o "-" \o toUserId

privateRoomId(socketId, toUserId) ==
  "private-" \o NumberToString(MathMin(socketId, toUserId))
             \o "-" \o NumberToString(MathMax(socketId, toUserId))

(***************************************************************************)
(* The fixed public rooms and the inputs clients send.                     *)
(***************************************************************************)
rooms == <<"general", "random", "tech", "gaming">>

roomsIncludes(r) == \E i \in 1..Len(rooms) : rooms[i] = r

Usernames == {"ann", "bo"}

\* the username each socket joined under, if it has joined before the
\* behaviour starts: two sockets share a display name, the third differs
FirstName == [c \in ConnIds |-> IF c = "q" THEN "bo" ELSE "ann"]

\* join_room targets: two public rooms and a name that is not a room
JoinTargets == {"general", "random", "lobby"}

\* send_message's room field: absent (""), a public room, or a socket id
NoRoom == ""

SendRooms == {NoRoom, "random", "q"}

Emojis == {"+1", "heart"}

MsgIds == 1..MaxMsgs

\* an id no stored message has
NoSuchId == MaxMsgs + 1

VARIABLES
  sockets,      \* socket id -> "open" | "closed"
  joined,       \* socket id -> the public rooms the socket has joined
  users,        \* the registry: socket id -> [username, room, online]
  typingUsers,  \* socket id -> username
  store,        \* the Message collection: id -> document
  fate,         \* message id -> "none" | "saving" | "saved" | "failed"
  nextId,       \* the next id new Message() takes
  pending,      \* the bag of handlers suspended at an await
  out,          \* the events emitted by the last handler turn, in order
  last,         \* the last handler turn
  events,       \* inbound events handled so far
  overlapped,   \* <<socket id, message id>>: two add_reaction handlers of
                \* the socket on the message were suspended at the same time
  shown,        \* socket id -> the last typing_users list delivered to it
  dA, dB, dOut  \* the private room deriver applied on its own

progvars == <<sockets, joined, users, typingUsers, store, fate, nextId,
              pending, out, last, events, overlapped, shown>>

dvars == <<dA, dB, dOut>>

vars == <<sockets, joined, users, typingUsers, store, fate, nextId,
          pending, out, last, events, overlapped, shown, dA, dB, dOut>>

(***************************************************************************)
(* Helpers.                                                                *)
(***************************************************************************)
Registered == DOMAIN users

OpenSockets == {c \in ConnIds : sockets[c] = "open"}

\* the sockets in a socket.io room: those that joined it, and the socket
\* whose id it is
InRoom(jn, sk, r) == {d \in ConnIds : sk[d] = "open" /\ (r \in jn[d] \/ r = d)}

Put(f, k, v) == [x \in DOMAIN f \cup {k} |-> IF x = k THEN v ELSE f[x]]

Drop(f, k) == [x \in DOMAIN f \ {k} |-> f[x]]

Event(ev, to, data) == [ev |-> ev, to |-> to, data |-> data]

Turn(op, conn, outcome, room, msg) ==
  [op |-> op, conn |-> conn, outcome |-> outcome, room |-> room, msg |-> msg]

\* an add_reaction turn also records the emoji sent and what save() wrote
ReactionTurn(conn, outcome, room, msg, emoji, delta) ==
  [op |-> "add_reaction", conn |-> conn, outcome |-> outcome, room |-> room,
   msg |-> msg, emoji |-> emoji, delta |-> delta]

IsReactionOf(h, c, id) ==
  /\ h.kind \in {"add_reaction.find", "add_reaction.save"}
  /\ h.conn = c
  /\ h.id = id

Suspend(h) == pending (+) SetToBag({h})

Resume(h) == pending (-) SetToBag({h})

Suspended == BagToSet(pending)

CanSuspend == BagCardinality(pending) < MaxPending

CanHandle == events < MaxEvents

\* the message ids a client can name: those of the messages it was sent
\* (saved, perhaps deleted since) and an id no message has
KnownIds == {i \in MsgIds : fate[i] = "saved"} \cup {NoSuchId}

\* Object.values(users).map(u => ({id, username, room, online}))
Roster(us) ==
  {[id |-> c, username |-> us[c].username, room |-> us[c].room,
    online |-> us[c].online] : c \in DOMAIN us}

\* Message.find({room}).sort({createdAt: 1}).limit(n): createdAt is set when
\* save() is called, in the turn that constructed the document, so creation
\* order is id order
HistoryLimit == 100

\* the ids of S between lo and hi, ascending
RECURSIVE SortedRange(_, _, _)
SortedRange(S, lo, hi) ==
  IF lo = hi THEN (IF lo \in S THEN <<lo>> ELSE <<>>)
  ELSE LET mid == (lo + hi) \div 2
       IN  SortedRange(S, lo, mid) \o SortedRange(S, mid + 1, hi)

SortedIds(S) ==
  IF S = {} THEN <<>>
  ELSE SortedRange(S, CHOOSE x \in S : \A y \in S : x <= y,
                      CHOOSE x \in S : \A y \in S : y <= x)

History(st, r) ==
  LET ids == SortedIds({i \in DOMAIN st : st[i].room = r})
  IN  [k \in 1..(IF Len(ids) < HistoryLimit THEN Len(ids) ELSE HistoryLimit)
         |-> st[ids[k]]]

(***************************************************************************)
(* Initial states.  The server starts with users = {} and typingUsers = {} *)
(* and no socket.  The behaviours explored start after the clients have    *)
(* connected and some of them have joined: each socket is open, and is     *)
(* either not registered or registered in "general" under FirstName with   *)
(* its history delivered (the state a connection event followed by a       *)
(* completed user_join leaves).  No message is stored, nobody is typing,   *)
(* no handler is suspended.                                                *)
(***************************************************************************)
Init ==
  /\ sockets = [c \in ConnIds |-> "open"]
  /\ \E S \in SUBSET ConnIds :
       /\ users = [c \in S |-> [username |-> FirstName[c], room |-> "general",
                                 online |-> TRUE]]
       /\ joined = [c \in ConnIds |-> IF c \in S THEN {"general"} ELSE {}]
  /\ typingUsers = <<>>
  /\ store = <<>>
  /\ fate = [i \in MsgIds |-> "none"]
  /\ nextId = 1
  /\ pending = EmptyBag
  /\ out = <<>>
  /\ last = Turn("init", "", "ok", NoRoom, 0)
  /\ events = 0
  /\ overlapped = {}
  /\ shown = [c \in ConnIds |-> {}]
  /\ dA = ""
  /\ dB = ""
  /\ dOut = ""

(***************************************************************************)
(* user_join                                                               *)
(***************************************************************************)
UserJoin(c, username) ==
  /\ sockets[c] = "open"
  /\ CanHandle /\ CanSuspend
  /\ users' = Put(users, c, [username |-> username, room |-> "general",
                             online |-> TRUE])
  /\ joined' = [joined EXCEPT ![c] = @ \cup {"general"}]
  /\ out' = <<Event("available_rooms", {c}, rooms)>>
  /\ pending' = Suspend([kind |-> "user_join", conn |-> c,
                         username |-> username])
  /\ last' = Turn("user_join", c, "await", "general", 0)
  /\ events' = events + 1
  /\ UNCHANGED <<sockets, typingUsers, store, fate, nextId, overlapped, dvars, shown>>

UserJoinHistory(h) ==
  /\ h \in Suspended /\ h.kind = "user_join"
  /\ pending' = Resume(h)
  /\ out' = <<Event("message_history", {h.conn} \cap OpenSockets,
                    History(store, "general")),
              Event("user_list", OpenSockets, Roster(users)),
              Event("notification",
                    InRoom(joined, sockets, "general") \ {h.conn},
                    [type |-> "join", room |-> "general",
                     username |-> h.username])>>
  /\ last' = Turn("user_join", h.conn, "ok", "general", 0)
  /\ UNCHANGED <<sockets, joined, users, typingUsers, store, fate, nextId,
                 events, overlapped, dvars, shown>>

\* Message.find rejects: the async handler has no try/catch
UserJoinHistoryFails(h) ==
  /\ h \in Suspended /\ h.kind = "user_join"
  /\ pending' = Resume(h)
  /\ out' = <<>>
  /\ last' = Turn("user_join", h.conn, "unhandled", "general", 0)
  /\ UNCHANGED <<sockets, joined, users, typingUsers, store, fate, nextId,
                 events, overlapped, dvars, shown>>

(***************************************************************************)
(* send_message                                                            *)
(***************************************************************************)
\* a send_message that answers an unknown sender with an error event
SendMessageUnknownEchoes(c) ==
  /\ sockets[c] = "open" /\ c \notin Registered
  /\ CanHandle
  /\ out' = <<Event("error", {c}, "unknown user")>>
  /\ last' = Turn("send_message", c, "return", NoRoom, 0)
  /\ events' = events + 1
  /\ UNCHANGED <<sockets, joined, users, typingUsers, store, fate, nextId,
                 pending, overlapped, dvars, shown>>

\* if (!user) return
SendMessageUnknown(c) ==
  /\ sockets[c] = "open" /\ c \notin Registered
  /\ CanHandle
  /\ out' = <<>>
  /\ last' = Turn("send_message", c, "return", NoRoom, 0)
  /\ events' = events + 1
  /\ UNCHANGED <<sockets, joined, users, typingUsers, store, fate, nextId,
                 pending, overlapped, dvars, shown>>

\* new Message({...}) with the schema's defaults
NewMessage(id, sender, senderId, body, room, isPrivate, recipientId) ==
  [id |-> id, sender |-> sender, senderId |-> senderId, message |-> body,
   room |-> room, isPrivate |-> isPrivate, recipientId |-> recipientId,
   delivered |-> TRUE, read |-> FALSE, reactions |-> <<>>,
   edited |-> FALSE, v |-> 0]

SendMessage(c, message, room) ==
  /\ sockets[c] = "open" /\ c \in Registered
  /\ CanHandle /\ CanSuspend /\ nextId <= MaxMsgs
  /\ LET targetRoom == IF room # NoRoom THEN room ELSE users[c].room
         newMessage == NewMessage(nextId, users[c].username, c, message,
                                  targetRoom, FALSE, "")
     IN  /\ pending' = Suspend([kind |-> "send_message", conn |-> c,
                                doc |-> newMessage])
         /\ last' = Turn("send_message", c, "await", targetRoom, nextId)
  /\ fate' = [fate EXCEPT ![nextId] = "saving"]
  /\ nextId' = nextId + 1
  /\ out' = <<>>
  /\ events' = events + 1
  /\ UNCHANGED <<sockets, joined, users, typingUsers, store, overlapped, dvars, shown>>

\* the events of a failed save that emits all the same
SendMessageFailedButEmits(h) ==
  <<Event("receive_message", InRoom(joined, sockets, h.doc.room), h.doc)>>

SendMessageFailedEmits(h) == <<>>

SendMessageSaved(h) ==
  /\ h \in Suspended /\ h.kind = "send_message"
  /\ pending' = Resume(h)
  /\ store' = Put(store, h.doc.id, h.doc)
  /\ fate' = [fate EXCEPT ![h.doc.id] = "saved"]
  /\ out' = <<Event("receive_message", InRoom(joined, sockets, h.doc.room),
                    h.doc)>>
  /\ last' = Turn("send_message", h.conn, "ok", h.doc.room, h.doc.id)
  /\ UNCHANGED <<sockets, joined, users, typingUsers, nextId, events, overlapped, dvars, shown>>

\* catch (err) { logger.error(...); Sentry.captureException(err) }
SendMessageSaveFails(h) ==
  /\ h \in Suspended /\ h.kind = "send_message"
  /\ pending' = Resume(h)
  /\ fate' = [fate EXCEPT ![h.doc.id] = "failed"]
  /\ out' = SendMessageFailedEmits(h)
  /\ last' = Turn("send_message", h.conn, "caught", h.doc.room, h.doc.id)
  /\ UNCHANGED <<sockets, joined, users, typingUsers, store, nextId, events,
                 overlapped, dvars, shown>>

(***************************************************************************)
(* join_room                                                               *)
(***************************************************************************)
\* a guard that accepts any room name
JoinRoomGuardAnyRoom(c, newRoom) ==
  /\ c \in Registered
  /\ users[c].room # newRoom

\* if (!user || !rooms.includes(newRoom) || user.room === newRoom) return
JoinRoomGuard(c, newRoom) ==
  /\ c \in Registered
  /\ roomsIncludes(newRoom)
  /\ users[c].room # newRoom

\* a join_room turn that passed the guard also records the room left
JoinRoomTurn(conn, newRoom, oldRoom) ==
  [op |-> "join_room", conn |-> conn, outcome |-> "await", room |-> newRoom,
   msg |-> 0, from |-> oldRoom]

JoinRoomReturns(c, newRoom) ==
  /\ sockets[c] = "open" /\ ~JoinRoomGuard(c, newRoom)
  /\ CanHandle
  /\ out' = <<>>
  /\ last' = Turn("join_room", c, "return", newRoom, 0)
  /\ events' = events + 1
  /\ UNCHANGED <<sockets, joined, users, typingUsers, store, fate, nextId,
                 pending, overlapped, dvars, shown>>

JoinRoom(c, newRoom) ==
  /\ sockets[c] = "open" /\ JoinRoomGuard(c, newRoom)
  /\ CanHandle /\ CanSuspend
  /\ LET oldRoom == users[c].room
         left    == [joined EXCEPT ![c] = @ \ {oldRoom}]
         entered == [left EXCEPT ![c] = @ \cup {newRoom}]
     IN  /\ joined' = entered
         /\ users' = [users EXCEPT ![c].room = newRoom]
         /\ out' = <<Event("notification",
                           InRoom(left, sockets, oldRoom) \ {c},
                           [type |-> "leave", room |-> oldRoom,
                            username |-> users[c].username]),
                     Event("notification",
                           InRoom(entered, sockets, newRoom) \ {c},
                           [type |-> "join", room |-> newRoom,
                            username |-> users[c].username])>>
         /\ last' = JoinRoomTurn(c, newRoom, oldRoom)
  /\ pending' = Suspend([kind |-> "join_room", conn |-> c,
                         newRoom |-> newRoom])
  /\ events' = events + 1
  /\ UNCHANGED <<sockets, typingUsers, store, fate, nextId, overlapped, dvars, shown>>

\* a replay of the default room, as user_join's
JoinRoomReplaysGeneral(h) == History(store, "general")

\* Message.find({ room: newRoom }).sort({ createdAt: 1 }).limit(100)
JoinRoomReplay(h) == History(store, h.newRoom)

JoinRoomHistory(h) ==
  /\ h \in Suspended /\ h.kind = "join_room"
  /\ pending' = Resume(h)
  /\ out' = <<Event("message_history", {h.conn} \cap OpenSockets,
                    JoinRoomReplay(h)),
              Event("room_joined", {h.conn} \cap OpenSockets, h.newRoom),
              Event("user_list", OpenSockets, Roster(users))>>
  /\ last' = Turn("join_room", h.conn, "ok", h.newRoom, 0)
  /\ UNCHANGED <<sockets, joined, users, typingUsers, store, fate, nextId,
                 events, overlapped, dvars, shown>>

\* Message.find rejects: the async handler has no try/catch
JoinRoomHistoryFails(h) ==
  /\ h \in Suspended /\ h.kind = "join_room"
  /\ pending' = Resume(h)
  /\ out' = <<>>
  /\ last' = Turn("join_room", h.conn, "unhandled", h.newRoom, 0)
  /\ UNCHANGED <<sockets, joined, users, typingUsers, store, fate, nextId,
                 events, overlapped, dvars, shown>>

(***************************************************************************)
(* disconnect: the transport has taken the socket out of every room and    *)
(* out of the namespace before the handler runs.                           *)
(***************************************************************************)
\* a disconnect turn also records the username of the entry it removed and
\* whether the socket had a typing entry
DisconnectTurn(conn, room, username, typing) ==
  [op |-> "disconnect", conn |-> conn, outcome |-> "ok", room |-> room,
   msg |-> 0, username |-> username, typing |-> typing]

\* a disconnect that leaves the typing map alone
DisconnectKeepsTyping(ty, c) == ty

\* delete typingUsers[socket.id]
DisconnectTyping(ty, c) == Drop(ty, c)

\* the roster the disconnect handler broadcasts
DisconnectRosterUnfiltered(us) == Roster(us)

DisconnectRoster(us) == {u \in Roster(us) : u.online}

Disconnect(c) ==
  /\ sockets[c] = "open"
  /\ CanHandle
  /\ sockets' = [sockets EXCEPT ![c] = "closed"]
  /\ joined' = [joined EXCEPT ![c] = {}]
  /\ IF c \in Registered
     THEN LET offline == [users EXCEPT ![c].online = FALSE]
          IN  /\ typingUsers' = DisconnectTyping(typingUsers, c)
              /\ out' = <<Event("notification",
                                InRoom(joined', sockets', users[c].room) \ {c},
                                [type |-> "leave", room |-> users[c].room,
                                 username |-> users[c].username]),
                          Event("user_list", OpenSockets \ {c},
                                DisconnectRoster(offline))>>
              /\ users' = Drop(users, c)
              /\ last' = DisconnectTurn(c, users[c].room, users[c].username,
                                        c \in DOMAIN typingUsers)
     ELSE /\ out' = <<>>
          /\ last' = Turn("disconnect", c, "return", NoRoom, 0)
          /\ UNCHANGED <<users, typingUsers>>
  /\ events' = events + 1
  /\ UNCHANGED <<store, fate, nextId, pending, overlapped, dvars, shown>>

(***************************************************************************)
(* typing_start / typing_stop.  typing_users carries a list of usernames;  *)
(* it is kept here as the set of its elements.                             *)
(***************************************************************************)
TypingUnknown(c, op) ==
  /\ sockets[c] = "open" /\ c \notin Registered
  /\ CanHandle
  /\ out' = <<>>
  /\ last' = Turn(op, c, "return", NoRoom, 0)
  /\ events' = events + 1
  /\ UNCHANGED <<sockets, joined, users, typingUsers, store, fate, nextId,
                 pending, overlapped, dvars, shown>>

\* the lists last delivered, after a typing_users event
Delivered(sh, e) == [b \in ConnIds |-> IF b \in e.to THEN e.data ELSE sh[b]]

\* Object.keys(typingUsers).filter(id => users[id]?.room === user.room
\*   && id !== socket.id).map(id => typingUsers[id])
TypingStartList(ty, c) ==
  {ty[id] : id \in {i \in DOMAIN ty :
                      i \in Registered /\ users[i].room = users[c].room
                      /\ i # c}}

TypingStart(c) ==
  /\ sockets[c] = "open" /\ c \in Registered
  /\ CanHandle
  /\ typingUsers' = Put(typingUsers, c, users[c].username)
  /\ out' = <<Event("typing_users",
                    InRoom(joined, sockets, users[c].room) \ {c},
                    TypingStartList(typingUsers', c))>>
  /\ shown' = Delivered(shown, out'[1])
  /\ last' = Turn("typing_start", c, "ok", users[c].room, 0)
  /\ events' = events + 1
  /\ UNCHANGED <<sockets, joined, users, store, fate, nextId, pending,
                 overlapped, dvars>>

\* Object.keys(typingUsers).filter(id => users[id]?.room === user.room)
TypingStopList(ty, c) ==
  {ty[id] : id \in {i \in DOMAIN ty :
                      i \in Registered /\ users[i].room = users[c].room}}

TypingStop(c) ==
  /\ sockets[c] = "open" /\ c \in Registered
  /\ CanHandle
  /\ typingUsers' = Drop(typingUsers, c)
  /\ out' = <<Event("typing_users",
                    InRoom(joined, sockets, users[c].room) \ {c},
                    TypingStopList(typingUsers', c))>>
  /\ shown' = Delivered(shown, out'[1])
  /\ last' = Turn("typing_stop", c, "ok", users[c].room, 0)
  /\ events' = events + 1
  /\ UNCHANGED <<sockets, joined, users, store, fate, nextId, pending,
                 overlapped, dvars>>

(***************************************************************************)
(* edit_message / message_read: findByIdAndUpdate(id, ..., {new: true})    *)
(***************************************************************************)
\* op is "edit_message" (update = content) or "message_read"
UpdateMessage(c, op, id, content) ==
  /\ sockets[c] = "open"
  /\ CanHandle /\ CanSuspend
  /\ pending' = Suspend([kind |-> op, conn |-> c, id |-> id,
                         content |-> content])
  /\ out' = <<>>
  /\ last' = Turn(op, c, "await", NoRoom, id)
  /\ events' = events + 1
  /\ UNCHANGED <<sockets, joined, users, typingUsers, store, fate, nextId,
                 overlapped, dvars, shown>>

Updated(h) ==
  IF h.kind = "edit_message"
  THEN [store[h.id] EXCEPT !.message = h.content, !.edited = TRUE]
  ELSE [store[h.id] EXCEPT !.read = TRUE]

UpdateMessageDone(h) ==
  /\ h \in Suspended /\ h.kind \in {"edit_message", "message_read"}
  /\ pending' = Resume(h)
  /\ IF h.id \in DOMAIN store
     THEN /\ store' = [store EXCEPT ![h.id] = Updated(h)]
          /\ out' = <<Event("message_updated",
                            InRoom(joined, sockets, Updated(h).room),
                            Updated(h))>>
          /\ last' = Turn(h.kind, h.conn, "ok", Updated(h).room, h.id)
     ELSE /\ store' = store
          /\ out' = <<>>
          /\ last' = Turn(h.kind, h.conn, "return", NoRoom, h.id)
  /\ UNCHANGED <<sockets, joined, users, typingUsers, fate, nextId, events,
                 overlapped, dvars, shown>>

UpdateMessageFails(h) ==
  /\ h \in Suspended /\ h.kind \in {"edit_message", "message_read"}
  /\ pending' = Resume(h)
  /\ out' = <<>>
  /\ last' = Turn(h.kind, h.conn, "caught", NoRoom, h.id)
  /\ UNCHANGED <<sockets, joined, users, typingUsers, store, fate, nextId,
                 events, overlapped, dvars, shown>>

(***************************************************************************)
(* delete_message: findById, then findByIdAndDelete                        *)
(***************************************************************************)
DeleteMessage(c, id) ==
  /\ sockets[c] = "open"
  /\ CanHandle /\ CanSuspend
  /\ pending' = Suspend([kind |-> "delete_message.find", conn |-> c,
                         id |-> id])
  /\ out' = <<>>
  /\ last' = Turn("delete_message", c, "await", NoRoom, id)
  /\ events' = events + 1
  /\ UNCHANGED <<sockets, joined, users, typingUsers, store, fate, nextId,
                 overlapped, dvars, shown>>

DeleteMessageFound(h) ==
  /\ h \in Suspended /\ h.kind = "delete_message.find"
  /\ IF h.id \in DOMAIN store
     THEN /\ pending' = Resume(h) (+)
                        SetToBag({[kind |-> "delete_message.delete",
                                   conn |-> h.conn, id |-> h.id,
                                   room |-> store[h.id].room]})
          /\ last' = Turn("delete_message", h.conn, "await",
                          store[h.id].room, h.id)
     ELSE /\ pending' = Resume(h)
          /\ last' = Turn("delete_message", h.conn, "return", NoRoom, h.id)
  /\ out' = <<>>
  /\ UNCHANGED <<sockets, joined, users, typingUsers, store, fate, nextId,
                 events, overlapped, dvars, shown>>

DeleteMessageDeleted(h) ==
  /\ h \in Suspended /\ h.kind = "delete_message.delete"
  /\ pending' = Resume(h)
  /\ store' = Drop(store, h.id)
  /\ out' = <<Event("message_deleted", InRoom(joined, sockets, h.room),
                    h.id)>>
  /\ last' = Turn("delete_message", h.conn, "ok", h.room, h.id)
  /\ UNCHANGED <<sockets, joined, users, typingUsers, fate, nextId, events,
                 overlapped, dvars, shown>>

DeleteMessageFails(h) ==
  /\ h \in Suspended
  /\ h.kind \in {"delete_message.find", "delete_message.delete"}
  /\ pending' = Resume(h)
  /\ out' = <<>>
  /\ last' = Turn("delete_message", h.conn, "caught", NoRoom, h.id)
  /\ UNCHANGED <<sockets, joined, users, typingUsers, store, fate, nextId,
                 events, overlapped, dvars, shown>>

(***************************************************************************)
(* add_reaction: findById, the upsert on the loaded document, save().      *)
(* save() of a loaded document sends the change only: a push is sent as    *)
(* $push and increments the version key; an assignment to                  *)
(* reactions[i].emoji is sent as $set of that position and applies only if *)
(* the stored version key is the loaded one; with nothing changed nothing  *)
(* is written.  save() rejects when the document is no longer stored.      *)
(***************************************************************************)
AddReaction(c, messageId, emoji) ==
  /\ sockets[c] = "open"
  /\ CanHandle /\ CanSuspend
  /\ pending' = Suspend([kind |-> "add_reaction.find", conn |-> c,
                         id |-> messageId, emoji |-> emoji])
  /\ out' = <<>>
  /\ last' = ReactionTurn(c, "await", NoRoom, messageId, emoji, "")
  /\ events' = events + 1
  /\ overlapped' = IF \E h \in Suspended : IsReactionOf(h, c, messageId)
                   THEN overlapped \cup {<<c, messageId>>}
                   ELSE overlapped
  /\ UNCHANGED <<sockets, joined, users, typingUsers, store, fate, nextId,
                 dvars, shown>>

\* message.reactions.findIndex(r => r.userId === socket.id); 0 is JS's -1
FindIndex(reactions, userId) ==
  LET hits == {i \in 1..Len(reactions) : reactions[i].userId = userId}
  IN  IF hits = {} THEN 0 ELSE CHOOSE i \in hits : \A j \in hits : i <= j

\* an upsert that always appends
UpsertAlwaysPush(reactions, userId, emoji) ==
  Append(reactions, [userId |-> userId, emoji |-> emoji])

Upsert(reactions, userId, emoji) ==
  LET existingIndex == FindIndex(reactions, userId)
  IN  IF existingIndex > 0
      THEN [reactions EXCEPT ![existingIndex].emoji = emoji]
      ELSE Append(reactions, [userId |-> userId, emoji |-> emoji])

\* what save() will send for the upsert: <<"push", entry>>,
\* <<"set", index, emoji>> or <<"none">>
Delta(before, after) ==
  IF Len(after) > Len(before) THEN <<"push", after[Len(after)]>>
  ELSE IF after = before THEN <<"none">>
  ELSE LET i == CHOOSE k \in 1..Len(after) : after[k] # before[k]
       IN  <<"set", i, after[i].emoji>>

AddReactionFound(h) ==
  /\ h \in Suspended /\ h.kind = "add_reaction.find"
  /\ IF h.id \in DOMAIN store
     THEN LET message == store[h.id]
              upserted == Upsert(message.reactions, h.conn, h.emoji)
          IN  /\ pending' = Resume(h) (+)
                   SetToBag({[kind |-> "add_reaction.save", conn |-> h.conn,
                              id |-> h.id, emoji |-> h.emoji,
                              doc |-> [message EXCEPT !.reactions = upserted],
                              delta |-> Delta(message.reactions, upserted)]})
              /\ last' = ReactionTurn(h.conn, "await", message.room, h.id,
                                      h.emoji, "")
     ELSE /\ pending' = Resume(h)
          /\ last' = ReactionTurn(h.conn, "return", NoRoom, h.id, h.emoji, "")
  /\ out' = <<>>
  /\ UNCHANGED <<sockets, joined, users, typingUsers, store, fate, nextId,
                 events, overlapped, dvars, shown>>

\* whether the update save() sends finds its document
SaveApplies(h) ==
  /\ h.id \in DOMAIN store
  /\ h.delta[1] = "set" => store[h.id].v = h.doc.v

\* the stored document after the update
SaveResult(h) ==
  LET cur == store[h.id]
  IN  CASE h.delta[1] = "push" ->
             [cur EXCEPT !.reactions = Append(@, h.delta[2]), !.v = @ + 1]
        [] h.delta[1] = "set" ->
             [cur EXCEPT !.reactions[h.delta[2]].emoji = h.delta[3]]
        [] OTHER -> cur

\* the loaded document after save(): a push increments its version key
SavedDoc(h) ==
  IF h.delta[1] = "push" THEN [h.doc EXCEPT !.v = @ + 1] ELSE h.doc

AddReactionSaved(h) ==
  /\ h \in Suspended /\ h.kind = "add_reaction.save"
  /\ SaveApplies(h)
  /\ pending' = Resume(h)
  /\ store' = [store EXCEPT ![h.id] = SaveResult(h)]
  /\ out' = <<Event("message_updated", InRoom(joined, sockets, h.doc.room),
                    SavedDoc(h))>>
  /\ last' = ReactionTurn(h.conn, "ok", h.doc.room, h.id, h.emoji,
                          h.delta[1])
  /\ UNCHANGED <<sockets, joined, users, typingUsers, fate, nextId, events,
                 overlapped, dvars, shown>>

\* findById or save() rejects (store failure, document gone, version moved)
AddReactionFails(h) ==
  /\ h \in Suspended
  /\ h.kind \in {"add_reaction.find", "add_reaction.save"}
  /\ pending' = Resume(h)
  /\ out' = <<>>
  /\ last' = ReactionTurn(h.conn, "caught", NoRoom, h.id, h.emoji, "")
  /\ UNCHANGED <<sockets, joined, users, typingUsers, store, fate, nextId,
                 events, overlapped, dvars, shown>>

(***************************************************************************)
(* private_message                                                         *)
(***************************************************************************)
\* if (!sender || !recipient) return
PrivateMessageReturns(c, toUserId) ==
  /\ sockets[c] = "open"
  /\ c \notin Registered \/ toUserId \notin Registered
  /\ CanHandle
  /\ out' = <<>>
  /\ last' = Turn("private_message", c, "return", NoRoom, 0)
  /\ events' = events + 1
  /\ UNCHANGED <<sockets, joined, users, typingUsers, store, fate, nextId,
                 pending, overlapped, dvars, shown>>

PrivateMessage(c, toUserId, message) ==
  /\ sockets[c] = "open"
  /\ c \in Registered /\ toUserId \in Registered
  /\ CanHandle /\ CanSuspend /\ nextId <= MaxMsgs
  /\ LET newMessage == NewMessage(nextId, users[c].username, c, message,
                                  privateRoomId(c, toUserId), TRUE, toUserId)
     IN  /\ pending' = Suspend([kind |-> "private_message", conn |-> c,
                                doc |-> newMessage])
         /\ last' = Turn("private_message", c, "await", newMessage.room,
                         nextId)
  /\ fate' = [fate EXCEPT ![nextId] = "saving"]
  /\ nextId' = nextId + 1
  /\ out' = <<>>
  /\ events' = events + 1
  /\ UNCHANGED <<sockets, joined, users, typingUsers, store, overlapped, dvars, shown>>

\* the sockets a saved private message is emitted to, were it sent to the
\* sender's current public room instead of the two sockets
PrivateRecipientsByRoom(h, id) ==
  IF h.conn \in Registered
  THEN InRoom(joined, sockets, users[h.conn].room) \cup InRoom(joined, sockets, id)
  ELSE InRoom(joined, sockets, id)

\* io.to(id): the socket.io room named by a socket id
PrivateRecipients(h, id) == InRoom(joined, sockets, id)

PrivateMessageSaved(h) ==
  /\ h \in Suspended /\ h.kind = "private_message"
  /\ pending' = Resume(h)
  /\ store' = Put(store, h.doc.id, h.doc)
  /\ fate' = [fate EXCEPT ![h.doc.id] = "saved"]
  /\ out' = <<Event("receive_message", PrivateRecipients(h, h.conn), h.doc),
              Event("receive_message", PrivateRecipients(h, h.doc.recipientId),
                    h.doc),
              Event("notification", PrivateRecipients(h, h.doc.recipientId),
                    [type |-> "private", room |-> h.doc.room,
                     username |-> h.doc.sender])>>
  /\ last' = Turn("private_message", h.conn, "ok", h.doc.room, h.doc.id)
  /\ UNCHANGED <<sockets, joined, users, typingUsers, nextId, events, overlapped, dvars, shown>>

PrivateMessageSaveFails(h) ==
  /\ h \in Suspended /\ h.kind = "private_message"
  /\ pending' = Resume(h)
  /\ fate' = [fate EXCEPT ![h.doc.id] = "failed"]
  /\ out' = <<>>
  /\ last' = Turn("private_message", h.conn, "caught", h.doc.room, h.doc.id)
  /\ UNCHANGED <<sockets, joined, users, typingUsers, store, nextId, events,
                 overlapped, dvars, shown>>

(***************************************************************************)
(* The handler turns, by inbound event.                                    *)
(***************************************************************************)
UserJoinTurns ==
  \/ \E c \in ConnIds, n \in Usernames : UserJoin(c, n)
  \/ \E h \in Suspended : UserJoinHistory(h)
  \/ \E h \in Suspended : UserJoinHistoryFails(h)

SendMessageTurns ==
  \/ \E c \in ConnIds : SendMessageUnknown(c)
  \/ \E c \in ConnIds, r \in SendRooms : SendMessage(c, "hi", r)
  \/ \E h \in Suspended : SendMessageSaved(h)
  \/ \E h \in Suspended : SendMessageSaveFails(h)

JoinRoomTurns ==
  \/ \E c \in ConnIds, r \in JoinTargets : JoinRoomReturns(c, r)
  \/ \E c \in ConnIds, r \in JoinTargets : JoinRoom(c, r)
  \/ \E h \in Suspended : JoinRoomHistory(h)
  \/ \E h \in Suspended : JoinRoomHistoryFails(h)

TypingTurns ==
  \/ \E c \in ConnIds, op \in {"typing_start", "typing_stop"} :
       TypingUnknown(c, op)
  \/ \E c \in ConnIds : TypingStart(c)
  \/ \E c \in ConnIds : TypingStop(c)

UpdateMessageTurns ==
  \/ \E c \in ConnIds, id \in KnownIds : UpdateMessage(c, "edit_message", id, "ed")
  \/ \E c \in ConnIds, id \in KnownIds : UpdateMessage(c, "message_read", id, "")
  \/ \E h \in Suspended : UpdateMessageDone(h)
  \/ \E h \in Suspended : UpdateMessageFails(h)

DeleteMessageTurns ==
  \/ \E c \in ConnIds, id \in KnownIds : DeleteMessage(c, id)
  \/ \E h \in Suspended : DeleteMessageFound(h)
  \/ \E h \in Suspended : DeleteMessageDeleted(h)
  \/ \E h \in Suspended : DeleteMessageFails(h)

AddReactionTurns ==
  \/ \E c \in ConnIds, id \in KnownIds, e \in Emojis : AddReaction(c, id, e)
  \/ \E h \in Suspended : AddReactionFound(h)
  \/ \E h \in Suspended : AddReactionSaved(h)
  \/ \E h \in Suspended : AddReactionFails(h)

PrivateMessageTurns ==
  \/ \E c \in ConnIds, to \in ConnIds : PrivateMessageReturns(c, to)
  \/ \E c \in ConnIds, to \in ConnIds : PrivateMessage(c, to, "hi")
  \/ \E h \in Suspended : PrivateMessageSaved(h)
  \/ \E h \in Suspended : PrivateMessageSaveFails(h)

DisconnectTurns == \E c \in ConnIds : Disconnect(c)

(***************************************************************************)
(* The server: any handler turn.                                           *)
(***************************************************************************)
Next ==
  \/ UserJoinTurns
  \/ SendMessageTurns
  \/ JoinRoomTurns
  \/ TypingTurns
  \/ UpdateMessageTurns
  \/ DeleteMessageTurns
  \/ AddReactionTurns
  \/ PrivateMessageTurns
  \/ DisconnectTurns

Spec == Init /\ [][Next]_vars

(***************************************************************************)
(* The server under the events of one concern at a time.                   *)
(***************************************************************************)
\* room membership and room traffic
NextRooms ==
  \/ UserJoinTurns
  \/ JoinRoomTurns
  \/ SendMessageTurns
  \/ DisconnectTurns

SpecRooms == Init /\ [][NextRooms]_vars

\* message creation, public and private
NextPrivate ==
  \/ UserJoinTurns
  \/ JoinRoomTurns
  \/ SendMessageTurns
  \/ PrivateMessageTurns
  \/ DisconnectTurns

SpecPrivate == Init /\ [][NextPrivate]_vars

\* typing indicators
NextTyping ==
  \/ UserJoinTurns
  \/ JoinRoomTurns
  \/ TypingTurns
  \/ DisconnectTurns

SpecTyping == Init /\ [][NextTyping]_vars

\* an awaited history query settles, and its handler then resumes: the
\* event loop runs the continuation of every settled promise
Completions ==
  \E h \in Suspended :
    \/ UserJoinHistory(h)
    \/ UserJoinHistoryFails(h)
    \/ JoinRoomHistory(h)
    \/ JoinRoomHistoryFails(h)

SpecTypingLive == Init /\ [][NextTyping]_vars /\ WF_vars(Completions)

\* the lifecycle of stored messages
NextMessages ==
  \/ SendMessageTurns
  \/ UpdateMessageTurns
  \/ DeleteMessageTurns
  \/ AddReactionTurns
  \/ DisconnectTurns

SpecMessages == Init /\ [][NextMessages]_vars

\* every handler that reads or writes a message
NextValidation ==
  \/ SendMessageTurns
  \/ PrivateMessageTurns
  \/ UpdateMessageTurns
  \/ DeleteMessageTurns
  \/ AddReactionTurns

SpecValidation == Init /\ [][NextValidation]_vars

\* reactions on a stored message, against its edits, its deletion and
\* disconnects
NextReactions ==
  \/ AddReactionTurns
  \/ UpdateMessageTurns
  \/ DeleteMessageTurns
  \/ DisconnectTurns

\* the initial states in which a first message is stored: a registered
\* socket has sent "hi" to "general" and its save has completed
InitMessages ==
  /\ sockets = [c \in ConnIds |-> "open"]
  /\ \E S \in SUBSET ConnIds :
       /\ users = [c \in S |-> [username |-> FirstName[c], room |-> "general",
                                 online |-> TRUE]]
       /\ joined = [c \in ConnIds |-> IF c \in S THEN {"general"} ELSE {}]
       /\ \E c \in S :
            store = Put(<<>>, 1, NewMessage(1, FirstName[c], c, "hi",
                                            "general", FALSE, ""))
  /\ typingUsers = <<>>
  /\ fate = [i \in MsgIds |-> IF i = 1 THEN "saved" ELSE "none"]
  /\ nextId = 2
  /\ pending = EmptyBag
  /\ out = <<>>
  /\ last = Turn("init", "", "ok", NoRoom, 0)
  /\ events = 0
  /\ overlapped = {}
  /\ shown = [c \in ConnIds |-> {}]
  /\ dA = ""
  /\ dB = ""
  /\ dOut = ""

SpecReactions == InitMessages /\ [][NextReactions]_vars

(***************************************************************************)
(* History replay against a room that holds about as many messages as the  *)
(* limit of the query: the messages were sent by a connection that has     *)
(* left since.                                                             *)
(***************************************************************************)
HistorySizes == (HistoryLimit - 1)..(HistoryLimit + MaxExtra)

InitHistory ==
  /\ sockets = [c \in ConnIds |-> "open"]
  /\ \E S \in SUBSET ConnIds :
       /\ users = [c \in S |-> [username |-> FirstName[c], room |-> "general",
                                 online |-> TRUE]]
       /\ joined = [c \in ConnIds |-> IF c \in S THEN {"general"} ELSE {}]
  /\ \E n \in HistorySizes, r \in {"general", "random"} :
       /\ store = [i \in 1..n |-> NewMessage(i, "ann", "gone", "hi", r,
                                             FALSE, "")]
       /\ nextId = n + 1
  /\ typingUsers = <<>>
  /\ fate = [i \in MsgIds |-> "saved"]
  /\ pending = EmptyBag
  /\ out = <<>>
  /\ last = Turn("init", "", "ok", NoRoom, 0)
  /\ events = 0
  /\ overlapped = {}
  /\ shown = [c \in ConnIds |-> {}]
  /\ dA = ""
  /\ dB = ""
  /\ dOut = ""

NextHistory ==
  \/ UserJoinTurns
  \/ JoinRoomTurns

SpecHistory == InitHistory /\ [][NextHistory]_vars

(***************************************************************************)
(* The private room deriver on its own, over every pair of ids.            *)
(***************************************************************************)
InitDerive ==
  /\ sockets = [c \in ConnIds |-> "open"]
  /\ joined = [c \in ConnIds |-> {}]
  /\ users = <<>>
  /\ typingUsers = <<>>
  /\ store = <<>>
  /\ fate = [i \in MsgIds |-> "none"]
  /\ nextId = 1
  /\ pending = EmptyBag
  /\ out = <<>>
  /\ last = Turn("init", "", "ok", NoRoom, 0)
  /\ events = 0
  /\ overlapped = {}
  /\ shown = [c \in ConnIds |-> {}]
  /\ dA \in IdDomain
  /\ dB \in IdDomain
  /\ dOut = ""

Derive ==
  /\ dOut = ""
  /\ dOut' = privateRoomId(dA, dB)
  /\ UNCHANGED <<progvars, dA, dB>>

SpecDerive == InitDerive /\ [][Derive]_vars

(***************************************************************************)
(* Properties.                                                             *)
(***************************************************************************)
Emitted(ev) == {i \in 1..Len(out) : out[i].ev = ev}

\* C1: every non-private receive_message delivered to a connection carries
\* the room the registry records as that connection's current room.
RoomTrafficIsolated ==
  \A i \in Emitted("receive_message") :
    ~out[i].data.isPrivate =>
      \A c \in out[i].to :
        c \in Registered /\ users[c].room = out[i].data.room

\* C2 as stated: when a private message is saved, receive_message goes to
\* the sender and to the recipient, and the "private" notification to the
\* recipient.
PrivateDeliveredToBoth ==
  (last.op = "private_message" /\ last.outcome = "ok") =>
    /\ out[1].to = {last.conn}
    /\ out[2].to = {out[1].data.recipientId}
    /\ out[3].to = {out[1].data.recipientId}

\* C2 amended: when a private message from A to B is saved, receive_message
\* with isPrivate and the room derived from A and B is delivered to each of
\* A and B that is still connected and to no other connection, and the
\* "private" notification to B if still connected and to nobody else.
PrivateDelivery ==
  (last.op = "private_message" /\ last.outcome = "ok") =>
    LET A == last.conn
        m == out[1].data
        B == m.recipientId
    IN  /\ Len(out) = 3
        /\ out[1].ev = "receive_message" /\ out[1].to = {A} \cap OpenSockets
        /\ out[2].ev = "receive_message" /\ out[2].to = {B} \cap OpenSockets
        /\ out[2].data = m
        /\ m.isPrivate /\ m.senderId = A
        /\ m.room = privateRoomId(A, B) /\ m.room = privateRoomId(B, A)
        /\ out[3].ev = "notification" /\ out[3].to = {B} \cap OpenSockets
        /\ out[3].data.type = "private" /\ out[3].data.room = m.room

\* a private message between two connected sockets is saved while a third
\* registered socket shares the sender's room
PrivateDeliveryReached ==
  /\ last.op = "private_message" /\ last.outcome = "ok"
  /\ out[1].to = {last.conn}
  /\ out[2].to = {out[1].data.recipientId}
  /\ out[1].data.recipientId # last.conn
  /\ \E C \in Registered \ {last.conn, out[1].data.recipientId} :
       users[C].room = users[last.conn].room

\* C3: the private room id computed for (A, B) is the one computed for
\* (B, A).
DeriveSymmetric == dOut # "" => dOut = privateRoomId(dB, dA)

\* the ids "7" and one spelling zero are derived in numeric order
DeriveSymmetricReached == dOut = "private-0-7" /\ dA = "7"

\* C4: the private messages of two different unordered pairs of connections
\* are never stored under the same room id.
PrivateRoomPairSpecific ==
  \A i, j \in DOMAIN store :
    (/\ store[i].isPrivate /\ store[j].isPrivate
     /\ {store[i].senderId, store[i].recipientId}
          # {store[j].senderId, store[j].recipientId})
    => store[i].room # store[j].room

\* C5: a receive_message is emitted only for a message whose save has
\* completed; a failed save is caught and reported, emits nothing, leaves
\* the message unsaved for good and is not issued again.
BroadcastFollowsPersistence ==
  /\ \A i \in Emitted("receive_message") :
       /\ fate[out[i].data.id] = "saved"
       /\ out[i].data.id \in DOMAIN store /\ store[out[i].data.id] = out[i].data
  /\ (last.op \in {"send_message", "private_message"}
        /\ last.msg \in MsgIds /\ fate[last.msg] = "failed") =>
       (last.outcome = "caught" /\ out = <<>> /\ last.msg \notin DOMAIN store)
  /\ \A i \in MsgIds : fate[i] = "failed" => i \notin DOMAIN store
  /\ \A h \in Suspended :
       h.kind \in {"send_message", "private_message"} =>
         fate[h.doc.id] = "saving"

\* one save has failed and a later message is delivered
BroadcastFollowsPersistenceReached ==
  /\ last.op \in {"send_message", "private_message"} /\ last.outcome = "ok"
  /\ out[1].to # {}
  /\ \E i \in MsgIds : fate[i] = "failed"

RosterOnlyOnline ==
  \A i \in Emitted("user_list") :
    \A u \in out[i].data :
      /\ u.online
      /\ sockets[u.id] = "open"
      /\ u.id \in Registered /\ users[u.id].online

\* a join handler resumes from its history fetch after its own socket has
\* disconnected, and broadcasts a roster of the others
RosterOnlyOnlineReached ==
  /\ last.op \in {"user_join", "join_room"} /\ last.outcome = "ok"
  /\ sockets[last.conn] = "closed"
  /\ \E i \in Emitted("user_list") : out[i].data # {} /\ out[i].to # {}

\* C8: after A's typing_start every other connection in A's room receives a
\* typing_users list that contains A's display name, and A receives none.
TypingStartVisible ==
  (last.op = "typing_start" /\ last.outcome = "ok") =>
    LET A == last.conn
    IN  /\ \A d \in Registered \ {A} :
             users[d].room = users[A].room =>
               \E i \in Emitted("typing_users") :
                 d \in out[i].to /\ users[A].username \in out[i].data
        /\ \A i \in 1..Len(out) : A \notin out[i].to

\* the reactions of the other users, in order
Others(reactions, userId) ==
  SelectSeq(reactions, LAMBDA r : r.userId # userId)

ExactlyOneRoom == \A c \in Registered : joined[c] = {users[c].room}

\* C11: a join_room from an unregistered connection, or whose target is not
\* one of the four public rooms, or is the connection's current room,
\* changes neither the registry, nor the room subscriptions, nor the typing
\* map, nor the store, issues no store call and emits no event.
JoinRoomGuardNoOp ==
  [][(/\ last'.op = "join_room" /\ events' # events
      /\ (\/ last'.conn \notin Registered
          \/ last'.room \notin {"general", "random", "tech", "gaming"}
          \/ users[last'.conn].room = last'.room)) =>
        /\ UNCHANGED <<users, joined, typingUsers, store, pending>>
        /\ out' = <<>>
    ]_vars

\* a registered connection that shares its room with another has asked for
\* a room that does not exist, with a message stored
JoinRoomGuardNoOpReached ==
  /\ last.op = "join_room" /\ last.outcome = "return"
  /\ last.room = "lobby"
  /\ last.conn \in Registered
  /\ \E d \in Registered \ {last.conn} : users[d].room = users[last.conn].room
  /\ store # <<>>

\* C12: a user_join of a connection that has a registry entry leaves that
\* entry as it was.
DuplicateJoinRejected ==
  [][(/\ last'.op = "user_join" /\ events' # events
      /\ last'.conn \in Registered) =>
        users'[last'.conn] = users[last'.conn]
    ]_vars

\* the n most recently created messages of a room, in creation order
MostRecent(st, r, n) ==
  LET ids == SortedIds({i \in DOMAIN st : st[i].room = r})
      k   == Len(ids)
      m   == IF k < n THEN k ELSE n
  IN  [j \in 1..m |-> st[ids[k - m + j]]]

\* C13: every message_history sent on user_join or join_room holds the 100
\* most recently created messages of the room joined, in creation order.
HistoryMostRecent ==
  (last.op \in {"user_join", "join_room"} /\ last.outcome = "ok") =>
    \A i \in Emitted("message_history") :
      out[i].data = MostRecent(store, last.room, 100)

\* C14: in every state of the store, whatever add_reaction handlers are
\* suspended between their findById and their save, each message holds at
\* most one reaction per userId.
ReactionsUnique ==
  \A id \in DOMAIN store :
    \A i, j \in 1..Len(store[id].reactions) :
      store[id].reactions[i].userId = store[id].reactions[j].userId => i = j

\* connection B is a member of room R whose last typing_users list holds
\* the name n, and the last turn took the connection with that name out of
\* R, by disconnect or by join_room, with no other typing entry of that
\* name left in R
Departed(n, B, R) ==
  /\ B \in Registered /\ sockets[B] = "open" /\ users[B].room = R
  /\ n \in shown[B]
  /\ last.conn # B
  /\ \/ /\ last.op = "disconnect" /\ last.outcome = "ok"
        /\ last.username = n /\ last.room = R /\ last.typing
     \/ /\ last.op = "join_room" /\ last.outcome = "await"
        /\ last.from = R
        /\ last.conn \in DOMAIN typingUsers
        /\ typingUsers[last.conn] = n
  /\ \A d \in DOMAIN typingUsers :
       (d \in Registered /\ users[d].room = R) => typingUsers[d] # n

\* B has been sent a list without n, or B is no longer a member of R, or a
\* member of R is typing under the name n
Cleared(n, B, R) ==
  \/ n \notin shown[B]
  \/ B \notin Registered
  \/ users[B].room # R
  \/ \E d \in DOMAIN typingUsers :
       d \in Registered /\ users[d].room = R /\ typingUsers[d] = n

\* the list last delivered to a connection changes only in a typing_start
\* or typing_stop turn: no other handler emits typing_users
TypingUsersOnlyFromTyping ==
  [][shown' # shown => last'.op \in {"typing_start", "typing_stop"}]_vars

\* C15: when A's name is in the last typing_users list delivered to a
\* member B of room R and A disconnects or leaves R by join_room, B is
\* eventually sent a typing_users list without A's name.
StaleTypingCleared ==
  \A n \in Usernames, B \in ConnIds, R \in {"general", "random"} :
    [](Departed(n, B, R) => <>Cleared(n, B, R))

\* C16: between handler turns every socket with a typing entry has a
\* registry entry; a disconnected socket has neither; and every typing_users
\* list holds only names of typing entries of registered, connected sockets.
TypingEntriesRegistered ==
  /\ DOMAIN typingUsers \subseteq Registered
  /\ \A c \in ConnIds :
       sockets[c] = "closed" => c \notin DOMAIN typingUsers \cup Registered
  /\ \A i \in Emitted("typing_users") :
       out[i].data \subseteq
         {typingUsers[d] : d \in {x \in DOMAIN typingUsers :
                                    x \in Registered /\ sockets[x] = "open"}}

\* a socket that was typing has disconnected while another one is typing
TypingEntriesRegisteredReached ==
  /\ last.op = "disconnect" /\ last.outcome = "ok" /\ last.typing
  /\ typingUsers # <<>>

\* this turn is the lookup, by an edit_message, message_read, delete_message
\* or add_reaction handler, of a message id that is not in the store
LookupMisses ==
  \E h \in Suspended :
    /\ h.kind \in {"edit_message", "message_read", "delete_message.find",
                   "add_reaction.find"}
    /\ h.id \notin DOMAIN store
    /\ pending' = Resume(h)
    /\ last'.conn = h.conn /\ last'.msg = h.id

\* C17: a send_message or private_message of an unregistered connection, a
\* private_message to an unregistered recipient, and the lookup of a message
\* id that is not in the store change neither the store nor the registry,
\* issue no store call and emit no event.
ValidationNoOps ==
  [][/\ (/\ last'.op \in {"send_message", "private_message"}
         /\ events' # events
         /\ last'.conn \notin Registered) =>
          /\ UNCHANGED <<store, users, pending, nextId>>
          /\ out' = <<>>
     /\ (/\ last'.op = "private_message" /\ events' # events
         /\ pending' # pending) =>
          \E h \in BagToSet(pending') :
            /\ h.kind = "private_message" /\ h.doc.id = nextId
            /\ h.doc.recipientId \in Registered
     /\ (last'.op = "private_message" /\ events' # events) =>
          UNCHANGED <<store, users>> /\ out' = <<>>
     /\ LookupMisses => UNCHANGED <<store, users>> /\ out' = <<>>
    ]_vars

\* an edit_message has looked up a message that was stored and deleted
\* since, while some socket is not registered
ValidationNoOpsReached ==
  /\ last.op = "edit_message" /\ last.outcome = "return"
  /\ last.msg \in MsgIds
  /\ Registered # ConnIds

\* C18: no failure of a store call leaves its handler uncaught.
StoreFailuresCaught == last.outcome # "unhandled"

\* C19: a user_join handler that resumes from its history fetch after its
\* socket has disconnected sends no join notification to any connection.
ResumedJoinRechecks ==
  (/\ last.op = "user_join" /\ last.outcome = "ok"
   /\ last.conn \notin Registered) =>
    \A i \in Emitted("notification") :
      out[i].data.type = "join" => out[i].to = {}

\* C20: when the last of a connection's join_room handlers has finished,
\* and the connection is subscribed to its registry room only (no repeated
\* user_join has intervened), the room_joined and the message_history just
\* delivered are those of the room the registry records for the connection.
RoomJoinedAgrees ==
  (/\ last.op = "join_room" /\ last.outcome = "ok"
   /\ last.conn \in Registered /\ sockets[last.conn] = "open"
   /\ joined[last.conn] = {users[last.conn].room}
   /\ \A h \in Suspended : h.conn # last.conn) =>
    /\ out[2].ev = "room_joined" /\ out[2].data = users[last.conn].room
    /\ out[1].data = History(store, users[last.conn].room)

====
